---- MODULE Spec2Model ----
(***************************************************************************)
(* Local Timesheet App (src/app.js): the store, its import/export/merge    *)
(* functions and the handlers that change the store.                       *)
(*                                                                         *)
(* JavaScript values are tagged records: a JSON document is a value built  *)
(* from Null, Bool, Num, Str, Arr and Obj; a JavaScript object is a TLA+   *)
(* record whose DOMAIN is the set of the keys it has, so a missing key is  *)
(* a key outside the DOMAIN and reads as Undefined.                        *)
(***************************************************************************)
EXTENDS Integers, Sequences, FiniteSets, TLC

VARIABLES
    state,     \* the module-level store `state` (app.js:125)
    storage,   \* localStorage[STORAGE_KEY]: Null when absent, else a text
    pending,   \* outstanding awaits: how many handlers of each kind are suspended
    uidCount,  \* how many identifiers uid() has handed out
    outcome,   \* the message the last handler surfaced (alert / setMsg)
    call,      \* the pure function applied last, with its arguments and result
    page       \* what render() drew last: the route and what its handlers closed over

vars == <<state, storage, pending, uidCount, outcome, call, page>>

---------------------------------------------------------------------------
(* Bounds of the model. *)

\* longest array drawn as an argument of mergeImported
MaxLen == 2
\* longest array drawn inside a raw document given to sanitizeImported
MaxRawLen == 1
\* identifiers uid() may hand out in one run
MaxUid == 4
\* handlers that may be suspended at an await at the same time
MaxInflight == 1
\* longest entries array of a store drawn for sheetTotals
MaxTotalsLen == 3
\* clients a store may hold before addClientBtn is held back
MaxClients == 3
\* sheets a store may hold before addSheetBtn is held back
MaxSheets == 2
\* entries a store may hold before a new entry is held back
MaxEntries == 3
\* identifiers uid() may hand out to new entries in one run
MaxEntryUid == 1
MaxLoads == 2

---------------------------------------------------------------------------
(* JavaScript values. *)

Undefined == [t |-> "undefined"]
Null == [t |-> "null"]
Bool(b) == [t |-> "boolean", b |-> b]
Num(n) == [t |-> "number", n |-> n]
Str(s) == [t |-> "string", s |-> s]
Arr(a) == [t |-> "array", a |-> a]
Obj(o) == [t |-> "object", o |-> o]

EmptyObj == Obj(<<>>)

\* typeof v
TypeOf(v) == IF v.t \in {"null", "array", "object"} THEN "object" ELSE v.t

\* !v
Falsy(v) ==
    \/ v.t \in {"undefined", "null"}
    \/ v = Bool(FALSE)
    \/ v = Num(0)
    \/ v = Str("")

\* v === null || v === undefined: the values `??=` replaces and on which a
\* property read throws a TypeError
Nullish(v) == v.t \in {"undefined", "null"}

\* Array.isArray(v)
IsArray(v) == v.t = "array"

\* v[k] for a v that is not nullish (arrays and primitives have none of the
\* keys the program reads by name)
Get(v, k) == IF v.t = "object" /\ k \in DOMAIN v.o THEN v.o[k] ELSE Undefined

\* v[k] = x on an object
Put(v, k, x) == Obj([kk \in DOMAIN v.o \cup {k} |-> IF kk = k THEN x ELSE v.o[kk]])

\* v[k] ??= x
NullishAssign(v, k, x) == IF Nullish(Get(v, k)) THEN Put(v, k, x) ELSE v

\* the own keys `...v` copies: none for null and undefined
SpreadKeys(v) == IF v.t = "object" THEN v.o ELSE <<>>

\* { ...a, ...b }
Spread(a, b) ==
    LET ka == SpreadKeys(a)
        kb == SpreadKeys(b)
    IN Obj([k \in DOMAIN ka \cup DOMAIN kb |-> IF k \in DOMAIN kb THEN kb[k] ELSE ka[k]])

\* the elements of the array under key k
Coll(v, k) == Get(v, k).a

Collections == {"clients", "sheets", "entries"}

SyncFields == {"readUrl", "writeUrl", "method", "bearerToken", "lastSyncAt"}

DEFAULT_SYNC ==
    Obj([readUrl |-> Str(""), writeUrl |-> Str(""), method |-> Str("PUT"),
         bearerToken |-> Str(""), lastSyncAt |-> Str("")])

---------------------------------------------------------------------------
(* import / export / merge *)

\* sanitizeImported throws "JSON is not an object."
sanitizeThrows(obj) == Falsy(obj) \/ TypeOf(obj) # "object"

\* a sanitizeImported that defaults only the collections that are missing
\* or null (`obj.clients ?? []`) and keeps whatever else it is given
sanitizeImported_NullishOnly(obj) ==
    LET arr(k) == IF Nullish(Get(obj, k)) THEN Arr(<<>>) ELSE Get(obj, k)
        s == Get(obj, "settings")
        settings == IF ~Falsy(s) /\ TypeOf(s) = "object" THEN s ELSE EmptyObj
    IN Obj([clients |-> arr("clients"),
            sheets |-> arr("sheets"),
            entries |-> arr("entries"),
            settings |-> NullishAssign(settings, "sync", DEFAULT_SYNC)])

\* what sanitizeImported returns when it does not throw
sanitizeImported(obj) ==
    LET arr(k) == IF IsArray(Get(obj, k)) THEN Get(obj, k) ELSE Arr(<<>>)
        s == Get(obj, "settings")
        settings == IF ~Falsy(s) /\ TypeOf(s) = "object" THEN s ELSE EmptyObj
    IN Obj([clients |-> arr("clients"),
            sheets |-> arr("sheets"),
            entries |-> arr("entries"),
            settings |-> NullishAssign(settings, "sync", DEFAULT_SYNC)])

\* map.set(k, x) on a Map kept as its entries in insertion order
MapSet(m, k, x) ==
    IF \E i \in DOMAIN m : m[i].key = k
    THEN [i \in DOMAIN m |-> IF m[i].key = k THEN [key |-> k, val |-> x] ELSE m[i]]
    ELSE Append(m, [key |-> k, val |-> x])

\* the Map after set(x.id, x) for every x of items, in order
RECURSIVE MapSetAll(_, _)
MapSetAll(m, items) ==
    IF items = <<>> THEN m
    ELSE MapSetAll(MapSet(m, Get(Head(items), "id"), Head(items)), Tail(items))

\* current wins: an id the Map already holds keeps its record
RECURSIVE MapSetAllKeep(_, _)
MapSetAllKeep(m, items) ==
    IF items = <<>> THEN m
    ELSE LET k == Get(Head(items), "id")
         IN MapSetAllKeep(IF \E i \in DOMAIN m : m[i].key = k THEN m
                          ELSE MapSet(m, k, Head(items)),
                          Tail(items))

mergeById_CurrentWins(a, b) ==
    LET map == MapSetAllKeep(MapSetAll(<<>>, a), b)
    IN [i \in DOMAIN map |-> map[i].val]

\* mergeById of mergeImported, for arrays whose elements can all be read
mergeById(a, b) ==
    LET map == MapSetAll(MapSetAll(<<>>, a), b)
    IN [i \in DOMAIN map |-> map[i].val]

\* x.id / item.id throws on a null element
mergeByIdThrows(a, b) ==
    \/ \E i \in DOMAIN a : Nullish(a[i])
    \/ \E i \in DOMAIN b : Nullish(b[i])

\* mergeImported throws a TypeError
mergeThrows(current, incoming) ==
    \E c \in Collections : mergeByIdThrows(Coll(current, c), Coll(incoming, c))

\* what mergeImported returns when it does not throw
mergeImported(current, incoming) ==
    LET settings == Spread(Get(current, "settings"), Get(incoming, "settings"))
    IN Obj([clients |-> Arr(mergeById(Coll(current, "clients"), Coll(incoming, "clients"))),
            sheets |-> Arr(mergeById(Coll(current, "sheets"), Coll(incoming, "sheets"))),
            entries |-> Arr(mergeById(Coll(current, "entries"), Coll(incoming, "entries"))),
            settings |-> NullishAssign(settings, "sync", DEFAULT_SYNC)])

\* exportPayload(): the store's four keys under a meta stamp
exportPayload(st, now) ==
    Obj([meta |-> Obj([exportedAt |-> now, app |-> Str("local-timesheet"), version |-> Num(2)]),
         clients |-> Get(st, "clients"),
         sheets |-> Get(st, "sheets"),
         entries |-> Get(st, "entries"),
         settings |-> Get(st, "settings")])

---------------------------------------------------------------------------
(* JSON texts: a text either parses to a JSON value or is not JSON at all. *)

\* JSON.stringify(v) for a v built from JSON values only
JSONstringify(v) == [t |-> "text", json |-> v]

\* a text JSON.parse rejects with a SyntaxError
NotJson == [t |-> "text"]

JSONparseThrows(text) == "json" \notin DOMAIN text

JSONparse(text) == text.json

---------------------------------------------------------------------------
(* storage *)

\* uid(): the n-th identifier handed out; no two calls return the same one
uid(n) == Str("u" \o ToString(n))

\* seedState(), n identifiers having been handed out before
seedState(n) ==
    Obj([clients |-> Arr(<<Obj([id |-> uid(n + 1), name |-> Str("First Baptist Church")])>>),
         sheets |-> Arr(<<Obj([id |-> uid(n + 2), clientId |-> uid(n + 1),
                               personName |-> Str("Name Here"),
                               periodStart |-> Str("2026-02-16"),
                               periodEnd |-> Str("2026-03-01")])>>),
         entries |-> Arr(<<>>),
         settings |-> Obj([sync |-> DEFAULT_SYNC])])

\* loadState() takes the stored text: it is there, parses, and its root can
\* take the settings backfill
loadStateParses(raw) ==
    /\ ~Falsy(raw)
    /\ ~JSONparseThrows(raw)
    /\ JSONparse(raw).t = "object"

\* loadState(): [state, storage, uids] after the call
loadState(raw, n) ==
    IF loadStateParses(raw)
    THEN LET parsed == NullishAssign(JSONparse(raw), "settings", EmptyObj)
         IN [state |-> Put(parsed, "settings",
                           NullishAssign(Get(parsed, "settings"), "sync", DEFAULT_SYNC)),
             storage |-> raw,
             uids |-> n]
    ELSE [state |-> seedState(n), storage |-> JSONstringify(seedState(n)), uids |-> n + 2]

\* saveState(): the text written under STORAGE_KEY
saveState(st) == JSONstringify(st)

---------------------------------------------------------------------------
(* What the handlers are given: form inputs, files, server responses. *)

\* new Date().toISOString() at the moment a handler asks for it
Times == {Str("2026-03-02T10:00:00.000Z")}

\* #newClientName, trimmed; a blank name ends the handler at its alert
ClientNames == {"Acme"}

\* the four inputs of the sync form, trimmed; #writeMethod is a select of PUT and POST
SyncInputs ==
    {[readUrl |-> "", writeUrl |-> "", method |-> "PUT", bearerToken |-> ""],
     [readUrl |-> "r", writeUrl |-> "w", method |-> "POST", bearerToken |-> "k"]}

Client(id, name) == Obj([id |-> id, name |-> Str(name)])

Hours(id, h) == Obj([id |-> Str(id), totalHours |-> Num(h)])

\* JSON documents a file or a server response may hold
Roots ==
    {Null, Arr(<<>>),
     EmptyObj,
     Obj([clients |-> Arr(<<Client(uid(1), "Renamed")>>),
          entries |-> Arr(<<Hours("e1", 5)>>)]),
     Obj([entries |-> Arr(<<Hours("e1", 5), Hours("e1", 9)>>)]),
     Obj([entries |-> Arr(<<Null>>)]),
     Obj([settings |-> Obj([sync |-> Obj([readUrl |-> Str("r")])])])}

\* what file.text() or a response body may be
Texts == {NotJson} \cup {JSONstringify(r) : r \in Roots}

\* what fetch() may come to: a rejection, a status outside 2xx, or a body
Responses ==
    {[kind |-> "rejected"], [kind |-> "status"]} \cup {[kind |-> "ok", body |-> x] : x \in Texts}

Kinds == {"merge", "replace", "load", "save"}

Inflight == pending["merge"] + pending["replace"] + pending["load"] + pending["save"]

Suspend(k) == [pending EXCEPT ![k] = @ + 1]

Resume(k) == [pending EXCEPT ![k] = @ - 1]

\* no pure function is being applied
Idle == [fn |-> "none"]

\* renderSettings() has drawn the settings page and bound its buttons
SettingsPage == [route |-> "#/settings"]

---------------------------------------------------------------------------
(* rendering: only whether it throws matters to a handler *)

HasNull(a) == \E i \in DOMAIN a : Nullish(a[i])

\* render() on the settings page throws a TypeError: c.id on a null client,
\* s.id on a null sheet, e.sheetId on a null entry once a sheet row is drawn
renderThrows(st) ==
    \/ HasNull(Coll(st, "clients"))
    \/ HasNull(Coll(st, "sheets"))
    \/ (Coll(st, "sheets") # <<>> /\ HasNull(Coll(st, "entries")))

---------------------------------------------------------------------------
(* handlers *)

\* the four assignments of the saveSyncBtn handler
saveSync(st, inp) ==
    LET sync == Get(Get(st, "settings"), "sync")
        s1 == Put(sync, "readUrl", Str(inp.readUrl))
        s2 == Put(s1, "writeUrl", Str(inp.writeUrl))
        s3 == Put(s2, "method", Str(inp.method))
        s4 == Put(s3, "bearerToken", Str(inp.bearerToken))
    IN Put(st, "settings", Put(Get(st, "settings"), "sync", s4))

\* state.settings.sync.lastSyncAt = now
stampSync(st, now) ==
    Put(st, "settings",
        Put(Get(st, "settings"), "sync",
            Put(Get(Get(st, "settings"), "sync"), "lastSyncAt", now)))

Init ==
    /\ state = seedState(0)
    /\ storage = JSONstringify(seedState(0))
    /\ uidCount = 2
    /\ pending = [k \in Kinds |-> 0]
    /\ outcome = ""
    /\ call = Idle
    /\ page = SettingsPage

\* addClientBtn click with a name typed in
AddClient ==
    \E name \in ClientNames :
        LET st == Put(state, "clients",
                      Arr(Append(Coll(state, "clients"), Client(uid(uidCount + 1), name))))
        IN /\ page = SettingsPage
           /\ name # ""
           /\ uidCount < MaxUid
           /\ Len(Coll(state, "clients")) < MaxClients
           /\ state' = st
           /\ storage' = saveState(st)
           /\ uidCount' = uidCount + 1
           /\ outcome' = ""
           /\ UNCHANGED <<pending, call, page>>

\* resetBtn click, confirm() answered with ok: the item is removed and
\* loadState() seeds anew
Reset ==
    LET l == loadState(Null, uidCount)
    IN /\ page = SettingsPage
       /\ l.uids <= MaxUid
       /\ state' = l.state
       /\ storage' = l.storage
       /\ uidCount' = l.uids
       /\ outcome' = ""
       /\ UNCHANGED <<pending, call, page>>

\* the page is loaded again: state = loadState(), and what was suspended is gone
Reload ==
    LET l == loadState(storage, uidCount)
    IN /\ l.uids <= MaxUid
       /\ state' = l.state
       /\ storage' = l.storage
       /\ uidCount' = l.uids
       /\ pending' = [k \in Kinds |-> 0]
       /\ outcome' = ""
       /\ UNCHANGED <<call, page>>

\* what a handler leaves behind: the store, whether it called saveState(),
\* and the message it surfaced last
Effect(st, saved, msg) == [state |-> st, saved |-> saved, outcome |-> msg]

\* the tail of the import handler once state is assigned: saveState(), alert, render()
imported(st) ==
    Effect(st, TRUE, IF renderThrows(st) THEN "Import failed: TypeError"
                     ELSE "Imported successfully.")

\* an import that assigns the sanitized default before it has looked at the root
importEffect_AssignFirst(st, mode, text) ==
    IF JSONparseThrows(text)
    THEN Effect(st, FALSE, "Import failed: SyntaxError")
    ELSE IF sanitizeThrows(JSONparse(text))
    THEN Effect(IF mode = "replace" THEN sanitizeImported(EmptyObj) ELSE st, FALSE,
                "Import failed: JSON is not an object.")
    ELSE LET incoming == sanitizeImported(JSONparse(text))
         IN IF mode = "replace" THEN imported(incoming)
            ELSE IF mergeThrows(st, incoming)
            THEN Effect(st, FALSE, "Import failed: TypeError")
            ELSE imported(mergeImported(st, incoming))

\* importBtn click, from the moment file.text() has resolved to `text`
importEffect(st, mode, text) ==
    IF JSONparseThrows(text)
    THEN Effect(st, FALSE, "Import failed: SyntaxError")
    ELSE IF sanitizeThrows(JSONparse(text))
    THEN Effect(st, FALSE, "Import failed: JSON is not an object.")
    ELSE LET incoming == sanitizeImported(JSONparse(text))
         IN IF mode = "replace" THEN imported(incoming)
            ELSE IF mergeThrows(st, incoming)
            THEN Effect(st, FALSE, "Import failed: TypeError")
            ELSE imported(mergeImported(st, incoming))

\* a load that stamps lastSyncAt and saves as soon as fetch() has settled,
\* before it has looked at the status
loadEffect_StampsFirst(st, resp, now) ==
    IF resp.kind = "rejected" THEN Effect(st, FALSE, "Load failed: Failed to fetch")
    ELSE IF resp.kind = "status"
    THEN Effect(stampSync(st, now), TRUE, "Load failed: GET failed")
    ELSE IF JSONparseThrows(resp.body) THEN Effect(st, FALSE, "Load failed: SyntaxError")
    ELSE IF sanitizeThrows(JSONparse(resp.body))
    THEN Effect(st, FALSE, "Load failed: JSON is not an object.")
    ELSE LET incoming == sanitizeImported(JSONparse(resp.body))
         IN IF mergeThrows(st, incoming)
            THEN Effect(st, FALSE, "Load failed: TypeError")
            ELSE LET merged == stampSync(mergeImported(st, incoming), now)
                 IN Effect(merged, TRUE,
                           IF renderThrows(merged) THEN "Load failed: TypeError"
                           ELSE "Loaded from URL and merged into local data.")

\* a load that merges the store into the fetched snapshot, so that the store's
\* own record stays under a shared id
loadEffect_CurrentWins(st, resp, now) ==
    IF resp.kind = "rejected" THEN Effect(st, FALSE, "Load failed: Failed to fetch")
    ELSE IF resp.kind = "status" THEN Effect(st, FALSE, "Load failed: GET failed")
    ELSE IF JSONparseThrows(resp.body) THEN Effect(st, FALSE, "Load failed: SyntaxError")
    ELSE IF sanitizeThrows(JSONparse(resp.body))
    THEN Effect(st, FALSE, "Load failed: JSON is not an object.")
    ELSE LET incoming == sanitizeImported(JSONparse(resp.body))
         IN IF mergeThrows(st, incoming)
            THEN Effect(st, FALSE, "Load failed: TypeError")
            ELSE LET merged == stampSync(mergeImported(incoming, st), now)
                 IN Effect(merged, TRUE,
                           IF renderThrows(merged) THEN "Load failed: TypeError"
                           ELSE "Loaded from URL and merged into local data.")

\* a load that puts the fetched snapshot in the place of the store
loadEffect_Replaces(st, resp, now) ==
    IF resp.kind = "rejected" THEN Effect(st, FALSE, "Load failed: Failed to fetch")
    ELSE IF resp.kind = "status" THEN Effect(st, FALSE, "Load failed: GET failed")
    ELSE IF JSONparseThrows(resp.body) THEN Effect(st, FALSE, "Load failed: SyntaxError")
    ELSE IF sanitizeThrows(JSONparse(resp.body))
    THEN Effect(st, FALSE, "Load failed: JSON is not an object.")
    ELSE LET merged == stampSync(sanitizeImported(JSONparse(resp.body)), now)
         IN Effect(merged, TRUE,
                   IF renderThrows(merged) THEN "Load failed: TypeError"
                   ELSE "Loaded from URL and merged into local data.")

\* loadFromUrlBtn click, from the moment fetch() has settled to `resp`
loadEffect(st, resp, now) ==
    IF resp.kind = "rejected" THEN Effect(st, FALSE, "Load failed: Failed to fetch")
    ELSE IF resp.kind = "status" THEN Effect(st, FALSE, "Load failed: GET failed")
    ELSE IF JSONparseThrows(resp.body) THEN Effect(st, FALSE, "Load failed: SyntaxError")
    ELSE IF sanitizeThrows(JSONparse(resp.body))
    THEN Effect(st, FALSE, "Load failed: JSON is not an object.")
    ELSE LET incoming == sanitizeImported(JSONparse(resp.body))
         IN IF mergeThrows(st, incoming)
            THEN Effect(st, FALSE, "Load failed: TypeError")
            ELSE LET merged == stampSync(mergeImported(st, incoming), now)
                 IN Effect(merged, TRUE,
                           IF renderThrows(merged) THEN "Load failed: TypeError"
                           ELSE "Loaded from URL and merged into local data.")

\* saveToUrlBtn click, from the moment fetch() has settled to `resp`
saveEffect(st, resp, now) ==
    IF resp.kind = "rejected" THEN Effect(st, FALSE, "Save failed: Failed to fetch")
    ELSE IF resp.kind = "status" THEN Effect(st, FALSE, "Save failed: PUT failed")
    ELSE LET stamped == stampSync(st, now)
         IN Effect(stamped, TRUE,
                   IF renderThrows(stamped) THEN "Save failed: TypeError"
                   ELSE "Saved to URL successfully.")

\* the store and the storage after a handler's effect
Apply(e) ==
    /\ state' = e.state
    /\ storage' = IF e.saved THEN saveState(e.state) ELSE storage
    /\ outcome' = e.outcome

\* importBtn click with a file chosen, up to `await file.text()`
ImportClick ==
    \E mode \in {"merge", "replace"} :
        /\ Inflight < MaxInflight
        /\ pending' = Suspend(mode)
        /\ outcome' = ""
        /\ UNCHANGED <<state, storage, uidCount, call, page>>

\* importBtn click after `await file.text()`
ImportDoneStep(mode, text) ==
    /\ pending[mode] > 0
    /\ pending' = Resume(mode)
    /\ Apply(importEffect(state, mode, text))
    /\ UNCHANGED <<uidCount, page>>

ImportDone ==
    \E mode \in {"merge", "replace"}, text \in Texts :
        /\ ImportDoneStep(mode, text)
        /\ UNCHANGED call

\* saveSyncBtn click
SaveSync ==
    \E inp \in SyncInputs :
        /\ Apply(Effect(saveSync(state, inp), TRUE, "Saved sync settings."))
        /\ UNCHANGED <<pending, uidCount, call, page>>

\* loadFromUrlBtn click up to `await fetch`: the settings are saved first, and
\* a blank Read URL ends the handler in its catch; the click is held back
\* once `limit` handlers are suspended
LoadClickStep(inp, limit) ==
    LET st == saveSync(state, inp)
    IN /\ IF Falsy(Get(Get(Get(st, "settings"), "sync"), "readUrl"))
          THEN /\ Apply(Effect(st, TRUE, "Load failed: Read URL is blank."))
               /\ UNCHANGED pending
          ELSE /\ Inflight < limit
               /\ Apply(Effect(st, TRUE, "Saved sync settings."))
               /\ pending' = Suspend("load")
       /\ UNCHANGED <<uidCount, page>>

LoadClick ==
    \E inp \in SyncInputs :
        /\ LoadClickStep(inp, MaxInflight)
        /\ UNCHANGED call

\* loadFromUrlBtn click after `await fetch`, up to its render()
LoadDoneStep(resp, now) ==
    /\ pending["load"] > 0
    /\ pending' = Resume("load")
    /\ Apply(loadEffect(state, resp, now))
    /\ UNCHANGED uidCount

\* on the settings page render() draws the settings page again
LoadDone ==
    \E resp \in Responses, now \in Times :
        /\ LoadDoneStep(resp, now)
        /\ UNCHANGED <<call, page>>

\* saveToUrlBtn click up to `await fetch`
SaveClick ==
    \E inp \in SyncInputs :
        LET st == saveSync(state, inp)
        IN /\ IF Falsy(Get(Get(Get(st, "settings"), "sync"), "writeUrl"))
              THEN /\ Apply(Effect(st, TRUE, "Save failed: Write URL is blank."))
                   /\ UNCHANGED pending
              ELSE /\ Inflight < MaxInflight
                   /\ Apply(Effect(st, TRUE, "Saved sync settings."))
                   /\ pending' = Suspend("save")
           /\ UNCHANGED <<uidCount, call, page>>

\* saveToUrlBtn click after `await fetch`
SaveDone ==
    \E resp \in {[kind |-> "rejected"], [kind |-> "status"], [kind |-> "ok", body |-> NotJson]},
       now \in Times :
        /\ pending["save"] > 0
        /\ pending' = Resume("save")
        /\ Apply(saveEffect(state, resp, now))
        /\ UNCHANGED <<uidCount, call, page>>

Next ==
    \/ AddClient
    \/ Reset
    \/ Reload
    \/ ImportClick
    \/ ImportDone
    \/ SaveSync
    \/ LoadClick
    \/ LoadDone
    \/ SaveClick
    \/ SaveDone

Spec == Init /\ [][Next]_vars

---------------------------------------------------------------------------
(* sanitizeImported and mergeImported applied to arguments drawn from      *)
(* bounded sets of documents.                                              *)

\* every array over S of at most n elements
Arrays(S, n) == UNION {[1..k -> S] : k \in 0..n}

\* the object holding the keys of f whose value is not Undefined
Fields(f) == Obj([k \in {x \in DOMAIN f : f[x] # Undefined} |-> f[k]])

FullSync ==
    Obj([readUrl |-> Str("r"), writeUrl |-> Str("w"), method |-> Str("POST"),
         bearerToken |-> Str("k"), lastSyncAt |-> Str("2026-03-01T09:00:00.000Z")])

PartialSync == Obj([readUrl |-> Str("r2")])

\* elements of the arrays of a raw document
RawItems == {Null, Hours("a", 1)}

\* what a raw document may hold under clients, sheets or entries
RawCollections ==
    {Undefined, Null, EmptyObj, Str("x"), Num(1)}
        \cup {Arr(a) : a \in Arrays(RawItems, MaxRawLen)}

\* what a raw document may hold under settings
RawSettings ==
    {Undefined, Null, Str("x"), Num(1), EmptyObj,
     Obj([theme |-> Str("dark")]),
     Obj([sync |-> Null]),
     Obj([sync |-> EmptyObj]),
     Obj([sync |-> PartialSync]),
     Obj([sync |-> FullSync, theme |-> Str("dark")])}

\* the roots given to sanitizeImported
RawDocuments ==
    {Null, Str("a string"), Str(""), Num(7), Num(0), Bool(TRUE), Bool(FALSE),
     Arr(<<>>), Arr(<<Hours("a", 1)>>)}
        \cup {Fields([clients |-> c, sheets |-> s, entries |-> e, settings |-> g]) :
                c \in RawCollections, s \in RawCollections, e \in RawCollections,
                g \in RawSettings}

\* elements of the arrays given to mergeImported: records sharing an id,
\* a record without id, a null and a number
MergeItems ==
    {Hours("a", 1), Hours("a", 2), Hours("b", 1), Obj([totalHours |-> Num(3)]), Null, Num(7)}

\* settings of the store mergeImported is given as current
CurrentSettings ==
    {Obj([sync |-> DEFAULT_SYNC]),
     Obj([sync |-> FullSync]),
     Obj([sync |-> FullSync, theme |-> Str("light"), locale |-> Str("en")])}

\* the pairs (current, incoming) given to mergeImported: both are outputs of
\* sanitizeImported, as every store an import has replaced is
MergeArguments ==
    {[current |-> sanitizeImported(Fields([clients |-> Arr(a), sheets |-> Arr(b),
                                           entries |-> Arr(a), settings |-> Undefined])),
      incoming |-> sanitizeImported(Fields([clients |-> Arr(b), sheets |-> Arr(a),
                                            entries |-> Arr(b), settings |-> Undefined]))] :
        a \in Arrays(MergeItems, MaxLen), b \in Arrays(MergeItems, MaxLen)}
    \cup
    {[current |-> sanitizeImported(Fields([clients |-> Arr(<<Hours("a", 1)>>),
                                           sheets |-> Undefined, entries |-> Undefined,
                                           settings |-> g])),
      incoming |-> sanitizeImported(Fields([clients |-> Undefined, sheets |-> Undefined,
                                            entries |-> Arr(<<Hours("b", 1)>>),
                                            settings |-> h]))] :
        g \in CurrentSettings, h \in RawSettings}

\* the handlers are not running
AppAtRest ==
    /\ state = seedState(0)
    /\ storage = JSONstringify(seedState(0))
    /\ uidCount = 2
    /\ pending = [k \in Kinds |-> 0]
    /\ outcome = ""
    /\ page = SettingsPage

InitSanitize ==
    /\ AppAtRest
    /\ call \in {[fn |-> "sanitizeImported", arg |-> d, done |-> FALSE,
                  throws |-> FALSE, result |-> Undefined] : d \in RawDocuments}

\* sanitizeImported(arg)
SanitizeCall ==
    /\ call.fn = "sanitizeImported"
    /\ ~call.done
    /\ call' = [call EXCEPT !.done = TRUE,
                            !.throws = sanitizeThrows(call.arg),
                            !.result = IF sanitizeThrows(call.arg) THEN Undefined
                                       ELSE sanitizeImported(call.arg)]
    /\ UNCHANGED <<state, storage, pending, uidCount, outcome, page>>

NextSanitize == SanitizeCall

SpecSanitize == InitSanitize /\ [][NextSanitize]_vars

InitMerge ==
    /\ AppAtRest
    /\ call \in {[fn |-> "mergeImported", current |-> m.current, incoming |-> m.incoming,
                  done |-> FALSE, throws |-> FALSE, result |-> Undefined,
                  swapped |-> Undefined] : m \in MergeArguments}

\* mergeImported(current, incoming)
MergeCall ==
    /\ call.fn = "mergeImported"
    /\ ~call.done
    /\ call' = [call EXCEPT !.done = TRUE,
                            !.throws = mergeThrows(call.current, call.incoming),
                            !.result = IF mergeThrows(call.current, call.incoming)
                                       THEN Undefined
                                       ELSE mergeImported(call.current, call.incoming)]
    /\ UNCHANGED <<state, storage, pending, uidCount, outcome, page>>

\* mergeImported(incoming, current), the same two snapshots the other way round
MergeSwappedCall ==
    /\ call.fn = "mergeImported"
    /\ call.done
    /\ ~call.throws
    /\ call.swapped = Undefined
    /\ call' = [call EXCEPT !.swapped = mergeImported(call.incoming, call.current)]
    /\ UNCHANGED <<state, storage, pending, uidCount, outcome, page>>

NextMerge == MergeCall \/ MergeSwappedCall

SpecMerge == InitMerge /\ [][NextMerge]_vars

---------------------------------------------------------------------------
(* Properties of mergeImported (checked under SpecMerge). *)

IdOf(x) == Get(x, "id")

Ids(a) == {IdOf(a[i]) : i \in DOMAIN a}

\* the last element of a that carries id
LastWith(a, id) ==
    a[CHOOSE i \in DOMAIN a :
        /\ IdOf(a[i]) = id
        /\ \A j \in DOMAIN a : IdOf(a[j]) = id => j <= i]

\* the ids of a in order, each at its first place only
RECURSIVE FirstIds(_, _)
FirstIds(a, seen) ==
    IF a = <<>> THEN <<>>
    ELSE IF IdOf(Head(a)) \in seen THEN FirstIds(Tail(a), seen)
    ELSE <<IdOf(Head(a))>> \o FirstIds(Tail(a), seen \cup {IdOf(Head(a))})

Merged == call.fn = "mergeImported" /\ call.done /\ ~call.throws

MergedBothWays == Merged /\ call.swapped # Undefined

\* the union of a (current) and b (incoming) keyed by id, as r
IdKeyedUnion(a, b, r) ==
    /\ Ids(r) = Ids(a) \cup Ids(b)
    /\ \A i, j \in DOMAIN r : IdOf(r[i]) = IdOf(r[j]) => i = j
    /\ \A i \in DOMAIN r :
          r[i] = IF IdOf(r[i]) \in Ids(b) THEN LastWith(b, IdOf(r[i]))
                 ELSE LastWith(a, IdOf(r[i]))
    /\ [i \in DOMAIN r |-> IdOf(r[i])] = FirstIds(a \o b, {})

\* C1: for each of clients, sheets and entries, mergeImported returns the
\* union keyed by id: the ids of the result are those of current and of
\* incoming, one record each; an id of incoming carries incoming's record
\* whole, an id of current alone carries current's record unchanged; the
\* records stand in current's order, then incoming's new ids in incoming's
\* order.
C1_MergeIsIdKeyedUnion ==
    Merged =>
        \A c \in Collections :
            IdKeyedUnion(Coll(call.current, c), Coll(call.incoming, c), Coll(call.result, c))

\* an id both sides carry with other values, an id of current alone and an
\* id of incoming alone, all in one merge of clients
C1_Witness ==
    /\ Merged
    /\ LET a == Coll(call.current, "clients")
           b == Coll(call.incoming, "clients")
       IN /\ \E i \in DOMAIN a, j \in DOMAIN b : IdOf(a[i]) = IdOf(b[j]) /\ a[i] # b[j]
          /\ Ids(a) \ Ids(b) # {}
          /\ Ids(b) \ Ids(a) # {}

\* the record r holds under id
RecordOf(r, id) == r[CHOOSE i \in DOMAIN r : IdOf(r[i]) = id]

\* a and b both carry id, and no record a has under it is one b has under it
DifferOn(a, b, id) ==
    /\ id \in Ids(a) \cap Ids(b)
    /\ \A i \in DOMAIN a, j \in DOMAIN b :
          IdOf(a[i]) = id /\ IdOf(b[j]) = id => a[i] # b[j]

\* C3: merge is not commutative: when A and B carry the same id with other
\* field values, mergeImported(A, B) and mergeImported(B, A) differ on that
\* id, each holding the record of its own second argument.
C3_MergeNotCommutative ==
    MergedBothWays =>
        \A c \in Collections :
            LET a == Coll(call.current, c)
                b == Coll(call.incoming, c)
                ab == Coll(call.result, c)
                ba == Coll(call.swapped, c)
            IN \A id \in Ids(a) \cap Ids(b) :
                  DifferOn(a, b, id) =>
                      /\ RecordOf(ab, id) # RecordOf(ba, id)
                      /\ \E j \in DOMAIN b : b[j] = RecordOf(ab, id)
                      /\ \E i \in DOMAIN a : a[i] = RecordOf(ba, id)

\* both merges done on snapshots whose entries differ on an id
C3_Witness ==
    /\ MergedBothWays
    /\ \E id \in Ids(Coll(call.current, "entries")) :
          DifferOn(Coll(call.current, "entries"), Coll(call.incoming, "entries"), id)
    /\ call.result # call.swapped

\* the keys of an object
Keys(v) == DOMAIN SpreadKeys(v)

\* C7: mergeImported merges settings shallowly, incoming's top-level keys
\* over current's; incoming's sync replaces current's whole, and the sync of
\* the result then has every one of its five fields, a missing one at its
\* default.
C7_MergedSyncDefaultFilled ==
    Merged =>
        LET cs == Get(call.current, "settings")
            is == Get(call.incoming, "settings")
            ms == Get(call.result, "settings")
        IN /\ Keys(ms) = Keys(cs) \cup Keys(is)
           /\ \A k \in Keys(ms) \ {"sync"} :
                 Get(ms, k) = IF k \in Keys(is) THEN Get(is, k) ELSE Get(cs, k)
           /\ \A f \in SyncFields :
                 Get(Get(ms, "sync"), f) =
                     IF f \in Keys(Get(is, "sync")) THEN Get(Get(is, "sync"), f)
                     ELSE Get(DEFAULT_SYNC, f)

\* C10: mergeImported never raises on an incoming that sanitizeImported
\* returned and a current the store can hold, malformed records included.
C10_MergeNeverThrows ==
    call.fn = "mergeImported" /\ call.done => ~call.throws

---------------------------------------------------------------------------
(* Properties of sanitizeImported (checked under SpecSanitize). *)

Sanitized == call.fn = "sanitizeImported" /\ call.done

\* the root is a JSON object: not null, not an array, not a primitive
ObjectRooted == call.arg.t = "object"

\* C4: for an object root, settings.sync of the result has all five fields,
\* each one missing from the input at its default (also when the input's
\* sync is there but partly filled); {} gives empty collections and the
\* default sync.
C4_SyncDefaultFilled ==
    Sanitized /\ ObjectRooted =>
        /\ ~call.throws
        /\ LET given == Get(Get(call.arg, "settings"), "sync")
               sync == Get(Get(call.result, "settings"), "sync")
           IN /\ sync.t = "object"
              /\ \A f \in SyncFields :
                    Get(sync, f) = IF f \in Keys(given) THEN Get(given, f)
                                   ELSE Get(DEFAULT_SYNC, f)
        /\ call.arg = EmptyObj =>
              call.result = Obj([clients |-> Arr(<<>>), sheets |-> Arr(<<>>),
                                 entries |-> Arr(<<>>),
                                 settings |-> Obj([sync |-> DEFAULT_SYNC])])

\* C5: sanitizeImported fails for every root that is not a JSON object
\* (null, string, number, boolean, array) and for no root that is one.
C5_FailsExactlyOnNonObjects ==
    Sanitized => (call.throws <=> ~ObjectRooted)

\* C6: for an object root sanitizeImported never fails, and each of clients,
\* sheets, entries of the result is the input's array when the input holds
\* an array there and the empty array otherwise; the arrays' elements pass
\* through unchanged.
C6_CollectionsCoerced ==
    Sanitized /\ ObjectRooted =>
        /\ ~call.throws
        /\ \A c \in Collections :
              Get(call.result, c) =
                  IF Get(call.arg, c).t = "array" THEN Get(call.arg, c) ELSE Arr(<<>>)

\* one document with an array that is kept, elements and all, a string that
\* is coerced and a key that is missing
C6_Witness ==
    /\ Sanitized
    /\ ObjectRooted
    /\ Get(call.arg, "clients").t = "array"
    /\ Coll(call.arg, "clients") # <<>>
    /\ Coll(call.result, "clients") = Coll(call.arg, "clients")
    /\ Get(call.arg, "sheets").t = "string"
    /\ Get(call.arg, "entries") = Undefined
    /\ Coll(call.result, "sheets") = <<>>

---------------------------------------------------------------------------
(* Properties of the handlers (checked under Spec). *)

\* merge(S, sanitize(export(S))) for the store S, through the exported text
RoundTrip(st, now) ==
    LET raw == JSONparse(JSONstringify(exportPayload(st, now)))
    IN [throws |-> sanitizeThrows(raw) \/ mergeThrows(st, sanitizeImported(raw)),
        raw |-> raw]

\* C2: export then merge-import is idempotent in every store the handlers
\* can reach: merge(S, sanitize(export(S))) has the clients, sheets and
\* entries of S (same ids, same values, as many records) and its settings.
C2_RoundTripIdempotent ==
    \A now \in Times :
        LET rt == RoundTrip(state, now)
        IN /\ ~rt.throws
           /\ mergeImported(state, sanitizeImported(rt.raw)) = state

ImportFailures == {"Import failed: SyntaxError", "Import failed: JSON is not an object."}

\* C8: a file import that fails on text that does not parse or on a root
\* that is not an object, in merge or in replace mode, leaves the store and
\* the stored text as they were.
C8_FailedImportChangesNothing ==
    [][outcome' \in ImportFailures => state' = state /\ storage' = storage]_vars

\* a failed import over a store that an earlier import has already changed
C8_Witness ==
    /\ outcome \in ImportFailures
    /\ state # seedState(0)
    /\ storage = saveState(state)

\* fetch() rejected, a status outside 2xx, or a blank URL
SyncFailures ==
    {"Load failed: Failed to fetch", "Load failed: GET failed",
     "Load failed: Read URL is blank.",
     "Save failed: Failed to fetch", "Save failed: PUT failed",
     "Save failed: Write URL is blank."}

SyncOf(st) == Get(Get(st, "settings"), "sync")

FormFields == {"readUrl", "writeUrl", "method", "bearerToken"}

\* s and t are the same store but for the four sync fields the form holds
SameButForm(s, t) ==
    /\ \A c \in Collections : Get(t, c) = Get(s, c)
    /\ Keys(Get(t, "settings")) = Keys(Get(s, "settings"))
    /\ \A k \in Keys(Get(s, "settings")) \ {"sync"} :
          Get(Get(t, "settings"), k) = Get(Get(s, "settings"), k)
    /\ \A f \in (Keys(SyncOf(s)) \cup Keys(SyncOf(t))) \ FormFields :
          Get(SyncOf(t), f) = Get(SyncOf(s), f)

\* C9 as stated: a sync call that fails leaves the store and the stored text
\* as they were before the button was pressed, lastSyncAt included.
C9_FailedSyncChangesNothing ==
    [][outcome' \in SyncFailures => state' = state /\ storage' = storage]_vars

\* C9 amended: pressing Load or Save first saves the sync form, so readUrl,
\* writeUrl, method and bearerToken take the form's values in the store and
\* in the stored text even when the call then fails; nothing else changes:
\* clients, sheets, entries, the other settings and lastSyncAt stay, the
\* stored text is that of the store, and the failure that arrives after the
\* await changes nothing at all.
C9_FailedSyncKeepsRecords ==
    [][outcome' \in SyncFailures \cup {"Saved sync settings."} =>
          /\ SameButForm(state, state')
          /\ storage' = saveState(state')
          /\ outcome' \in SyncFailures \ {"Load failed: Read URL is blank.",
                                           "Save failed: Write URL is blank."} =>
                state' = state /\ storage' = storage]_vars

\* a load that failed on its status after the form put a Read URL in the
\* store; no sync has ever succeeded
C9_Witness ==
    /\ outcome = "Load failed: GET failed"
    /\ Get(SyncOf(state), "readUrl") = Str("r")
    /\ Get(SyncOf(state), "lastSyncAt") = Str("")
    /\ storage = saveState(state)

---------------------------------------------------------------------------
(* Strings and numbers of the time arithmetic.                             *)
(*                                                                         *)
(* A TLA+ string is atomic, so Chars lists the characters of every string  *)
(* the model compares or parses and Code gives a character's code unit.    *)
(* A number of hours is counted in TicksPerHour-ths of an hour, the unit   *)
(* in which both a minute (5 ticks) and a hundredth (3 ticks) are whole;   *)
(* parseHHMM counts minutes.                                               *)

\* the characters of s
Chars(s) ==
    CASE s = "" -> <<>>
      [] s = "09:00" -> <<"0", "9", ":", "0", "0">>
      [] s = "17:30" -> <<"1", "7", ":", "3", "0">>
      [] s = "17:00" -> <<"1", "7", ":", "0", "0">>
      [] s = "0" -> <<"0">>
      [] s = "00:00" -> <<"0", "0", ":", "0", "0">>
      [] s = "23:59" -> <<"2", "3", ":", "5", "9">>
      [] s = "24:00" -> <<"2", "4", ":", "0", "0">>
      [] s = "12:60" -> <<"1", "2", ":", "6", "0">>
      [] s = "9:00" -> <<"9", ":", "0", "0">>
      [] s = "09:0" -> <<"0", "9", ":", "0">>
      [] s = "0900" -> <<"0", "9", "0", "0">>
      [] s = "09:000" -> <<"0", "9", ":", "0", "0", "0">>
      [] s = "ab:cd" -> <<"a", "b", ":", "c", "d">>
      [] s = "09-00" -> <<"0", "9", "-", "0", "0">>
      [] s = "99:99" -> <<"9", "9", ":", "9", "9">>
      [] s = "2026-02-16" -> <<"2", "0", "2", "6", "-", "0", "2", "-", "1", "6">>
      [] s = "2026-03-01" -> <<"2", "0", "2", "6", "-", "0", "3", "-", "0", "1">>
      [] s = "2026-02-20" -> <<"2", "0", "2", "6", "-", "0", "2", "-", "2", "0">>
      [] s = "2026-02-24" -> <<"2", "0", "2", "6", "-", "0", "2", "-", "2", "4">>
      [] s = "2026-03-05" -> <<"2", "0", "2", "6", "-", "0", "3", "-", "0", "5">>
      [] s = "2026-03-02T10:00:00.000Z" -> <<"2", "0", "2", "6", "-", "0", "3", "-", "0", "2", "T", "1", "0", ":", "0", "0", ":", "0", "0", ".", "0", "0", "0", "Z">>
      [] s = "2026-02-20T08:00:00.000Z" -> <<"2", "0", "2", "6", "-", "0", "2", "-", "2", "0", "T", "0", "8", ":", "0", "0", ":", "0", "0", ".", "0", "0", "0", "Z">>
      [] s = "0.5" -> <<"0", ".", "5">>
      [] s = "0.25" -> <<"0", ".", "2", "5">>
      [] s = "9" -> <<"9">>
      [] s = "abc" -> <<"a", "b", "c">>
      [] s = "-1" -> <<"-", "1">>
      [] s = "1." -> <<"1", ".">>
      [] s = ".5" -> <<".", "5">>

\* the code unit of the character c
Code(c) ==
    CASE c = "-" -> 45
      [] c = "." -> 46
      [] c = "0" -> 48
      [] c = "1" -> 49
      [] c = "2" -> 50
      [] c = "3" -> 51
      [] c = "4" -> 52
      [] c = "5" -> 53
      [] c = "6" -> 54
      [] c = "7" -> 55
      [] c = "8" -> 56
      [] c = "9" -> 57
      [] c = ":" -> 58
      [] c = "T" -> 84
      [] c = "Z" -> 90
      [] c = "a" -> 97
      [] c = "b" -> 98
      [] c = "c" -> 99
      [] c = "d" -> 100

TicksPerHour == 300

\* the value that is not a number
NaN == [t |-> "number", nan |-> TRUE]

IsDigit(c) == Code(c) >= 48 /\ Code(c) <= 57

\* the digits of a numeral read as an integer
RECURSIVE DigitsValue(_)
DigitsValue(cs) ==
    IF cs = <<>> THEN 0
    ELSE 10 * DigitsValue(SubSeq(cs, 1, Len(cs) - 1)) + (Code(cs[Len(cs)]) - 48)

AllDigits(cs) == \A i \in DOMAIN cs : IsDigit(cs[i])

\* where the decimal point of a numeral is, 0 when it has none
PointAt(cs) ==
    IF \E i \in DOMAIN cs : cs[i] = "." THEN CHOOSE i \in DOMAIN cs : cs[i] = "." ELSE 0

\* Number(text) of a text in hours: an optional sign, digits, and at most two
\* decimals (the model's texts have no more); the empty text is 0, any other
\* text NaN
RECURSIVE NumberOfChars(_)
NumberOfChars(cs) ==
    LET p == PointAt(cs)
        whole == IF p = 0 THEN cs ELSE SubSeq(cs, 1, p - 1)
        frac == IF p = 0 THEN <<>> ELSE SubSeq(cs, p + 1, Len(cs))
    IN IF cs = <<>> THEN Num(0)
       ELSE IF cs[1] = "-" /\ Len(cs) > 1 /\ cs[2] # "-"
       THEN LET m == NumberOfChars(Tail(cs))
            IN IF m = NaN THEN NaN ELSE Num(0 - m.n)
       ELSE IF /\ AllDigits(whole) /\ AllDigits(frac)
               /\ Len(whole) + Len(frac) > 0
               /\ Len(frac) <= 2
       THEN Num(DigitsValue(whole) * TicksPerHour
                + (IF Len(frac) >= 1 THEN (Code(frac[1]) - 48) * (TicksPerHour \div 10) ELSE 0)
                + (IF Len(frac) = 2 THEN (Code(frac[2]) - 48) * (TicksPerHour \div 100) ELSE 0))
       ELSE NaN

\* Number(v)
Number(v) ==
    IF v.t = "number" THEN v
    ELSE IF v.t = "string" THEN NumberOfChars(Chars(v.s))
    ELSE IF v.t = "null" THEN Num(0)
    ELSE IF v.t = "boolean" THEN Num(IF v.b THEN TicksPerHour ELSE 0)
    ELSE NaN

\* round2(n): Math.round is floor(x + 1/2); a tick is a third of a hundredth,
\* so n * 100 is never within Number.EPSILON of a half
round2(n) == Num(3 * ((2 * n.n + 3) \div 6))

\* /^\d{2}:\d{2}$/.test(s)
MatchesHHMM(cs) ==
    /\ Len(cs) = 5
    /\ IsDigit(cs[1]) /\ IsDigit(cs[2])
    /\ cs[3] = ":"
    /\ IsDigit(cs[4]) /\ IsDigit(cs[5])

\* parseHHMM(s): minutes since midnight, or null
parseHHMM(s) ==
    IF Falsy(s) \/ ~MatchesHHMM(Chars(s.s)) THEN Null
    ELSE LET hh == DigitsValue(SubSeq(Chars(s.s), 1, 2))
             mm == DigitsValue(SubSeq(Chars(s.s), 4, 5))
         IN IF hh < 0 \/ hh > 23 \/ mm < 0 \/ mm > 59 THEN Null
            ELSE Num(hh * 60 + mm)

\* a hoursBetween that takes the difference of the two times as it is
hoursBetween_SameDay(timeIn, timeOut) ==
    LET a == parseHHMM(timeIn)
        b == parseHHMM(timeOut)
    IN IF Nullish(a) \/ Nullish(b) THEN Null
       ELSE Num((b.n - a.n) * (TicksPerHour \div 60))

\* hoursBetween(timeIn, timeOut)
hoursBetween(timeIn, timeOut) ==
    LET a == parseHHMM(timeIn)
        b == parseHHMM(timeOut)
    IN IF Nullish(a) \/ Nullish(b) THEN Null
       ELSE LET diff == b.n - a.n
                wrapped == IF diff < 0 THEN diff + 24 * 60 ELSE diff
            IN Num(wrapped * (TicksPerHour \div 60))

\* s1 < s2 on strings: by code units, a proper prefix first
RECURSIVE CharsLess(_, _)
CharsLess(a, b) ==
    IF b = <<>> THEN FALSE
    ELSE IF a = <<>> THEN TRUE
    ELSE IF Code(a[1]) # Code(b[1]) THEN Code(a[1]) < Code(b[1])
    ELSE CharsLess(Tail(a), Tail(b))

StrLess(s1, s2) == CharsLess(Chars(s1.s), Chars(s2.s))

\* inRange(dateStr, startStr, endStr)
inRange(dateStr, startStr, endStr) ==
    /\ ~StrLess(dateStr, startStr)
    /\ ~StrLess(endStr, dateStr)

---------------------------------------------------------------------------
(* hoursBetween applied to the texts a time input may hold. *)

\* values of #timeIn and #timeOut
TimeTexts ==
    {"", "09:00", "17:30", "00:00", "23:59", "24:00", "12:60", "9:00", "09:0",
     "0900", "09:000", "ab:cd", "09-00", "99:99"}

TimeArguments == {Str(s) : s \in TimeTexts} \cup {Null, Undefined}

InitTime ==
    /\ AppAtRest
    /\ call \in {[fn |-> "hoursBetween", timeIn |-> a, timeOut |-> b,
                  done |-> FALSE, result |-> Undefined] : a, b \in TimeArguments}

\* hoursBetween(timeIn, timeOut)
TimeCall ==
    /\ call.fn = "hoursBetween"
    /\ ~call.done
    /\ call' = [call EXCEPT !.done = TRUE,
                            !.result = hoursBetween(call.timeIn, call.timeOut)]
    /\ UNCHANGED <<state, storage, pending, uidCount, outcome, page>>

NextTime == TimeCall

SpecTime == InitTime /\ [][NextTime]_vars

---------------------------------------------------------------------------
(* Properties of hoursBetween (checked under SpecTime). *)

\* a strict HH:MM text: two digits, a colon, two digits, 00..23 and 00..59
StrictHHMM(v) ==
    /\ v.t = "string"
    /\ LET cs == Chars(v.s)
       IN /\ Len(cs) = 5
          /\ cs[3] = ":"
          /\ \A i \in {1, 2, 4, 5} : cs[i] \in {"0", "1", "2", "3", "4", "5", "6", "7", "8", "9"}
          /\ 10 * (Code(cs[1]) - 48) + (Code(cs[2]) - 48) \in 0..23
          /\ 10 * (Code(cs[4]) - 48) + (Code(cs[5]) - 48) \in 0..59

\* minutes since midnight of a strict HH:MM text
MinutesOf(v) ==
    LET cs == Chars(v.s)
    IN 60 * (10 * (Code(cs[1]) - 48) + (Code(cs[2]) - 48))
       + 10 * (Code(cs[4]) - 48) + (Code(cs[5]) - 48)

\* C17: hoursBetween(timeIn, timeOut) is null exactly when one of the two is
\* not a strict HH:MM text (00..23, 00..59); otherwise it is
\* ((outMinutes - inMinutes) mod 1440) / 60, which lies in [0, 24) and is 0
\* for equal times.
C17_HoursBetween ==
    (call.fn = "hoursBetween" /\ call.done) =>
        IF StrictHHMM(call.timeIn) /\ StrictHHMM(call.timeOut)
        THEN /\ call.result.t = "number"
             /\ call.result.n * 60
                  = ((MinutesOf(call.timeOut) - MinutesOf(call.timeIn)) % 1440) * TicksPerHour
             /\ call.result.n >= 0
             /\ call.result.n < 24 * TicksPerHour
             /\ (call.timeIn = call.timeOut => call.result.n = 0)
        ELSE call.result = Null

\* an overnight pair: 17:30 to 09:00 is 15.5 hours
C17_Witness ==
    /\ call.fn = "hoursBetween"
    /\ call.done
    /\ call.timeIn = Str("17:30")
    /\ call.timeOut = Str("09:00")
    /\ call.result = Num(15 * TicksPerHour + TicksPerHour \div 2)

---------------------------------------------------------------------------
(* sheetTotals applied to the sheets of a store. *)

\* Number(v) || 0
NumberOrZero(v) == IF Number(v) = NaN \/ Falsy(Number(v)) THEN Num(0) ELSE Number(v)

\* entries.reduce((acc, e) => acc + (Number(e.totalHours) || 0), 0)
RECURSIVE SumHours(_)
SumHours(es) ==
    IF es = <<>> THEN 0
    ELSE SumHours(SubSeq(es, 1, Len(es) - 1))
         + NumberOrZero(Get(es[Len(es)], "totalHours")).n

\* a sheetTotals that sums over every entry of the store
sheetTotals_AllEntries(st, sheet) ==
    LET entries == Coll(st, "entries")
    IN [count |-> Len(entries), sumHours |-> round2(Num(SumHours(entries)))]

\* sheetTotals(sheet), reading the store st
sheetTotals(st, sheet) ==
    LET entries == SelectSeq(Coll(st, "entries"),
                             LAMBDA e : Get(e, "sheetId") = Get(sheet, "id"))
    IN [count |-> Len(entries), sumHours |-> round2(Num(SumHours(entries)))]

Sheet(id, clientId) ==
    Obj([id |-> Str(id), clientId |-> Str(clientId), personName |-> Str("Name Here"),
         periodStart |-> Str("2026-02-16"), periodEnd |-> Str("2026-03-01")])

\* entries as a store may hold them: of sheet s1, of sheet s2, or of a sheet
\* that is gone; with a total that is a number, a text, or missing
TotalsEntries ==
    {Obj([sheetId |-> Str(s), totalHours |-> h]) :
        s \in {"s1", "s2", "gone"}, h \in {Num(TicksPerHour), Num(5), Str("abc")}}
    \cup {Obj([sheetId |-> Str(s)]) : s \in {"s1", "s2", "gone"}}

TotalsStores ==
    {Obj([clients |-> Arr(<<Client(Str("c1"), "Acme")>>),
          sheets |-> Arr(<<Sheet("s1", "c1"), Sheet("s2", "c1")>>),
          entries |-> Arr(es),
          settings |-> Obj([sync |-> DEFAULT_SYNC])]) : es \in Arrays(TotalsEntries, MaxTotalsLen)}

InitTotals ==
    /\ state \in TotalsStores
    /\ storage = saveState(state)
    /\ uidCount = 0
    /\ pending = [k \in Kinds |-> 0]
    /\ outcome = ""
    /\ page = SettingsPage
    /\ call = Idle

\* sheetTotals(s) for a sheet s of the store
TotalsCall ==
    \E i \in DOMAIN Coll(state, "sheets") :
        /\ call' = [fn |-> "sheetTotals", sheet |-> Coll(state, "sheets")[i],
                    result |-> sheetTotals(state, Coll(state, "sheets")[i])]
        /\ UNCHANGED <<state, storage, pending, uidCount, outcome, page>>

NextTotals == TotalsCall

SpecTotals == InitTotals /\ [][NextTotals]_vars

---------------------------------------------------------------------------
(* Properties of sheetTotals (checked under SpecTotals). *)

\* the positions of the store's entries that belong to the sheet
Belonging(st, sheet) ==
    {i \in DOMAIN Coll(st, "entries") :
        Get(Coll(st, "entries")[i], "sheetId") = Get(sheet, "id")}

\* an entry's total as sheetTotals counts it: the number, 0 when it is none
CountedHours(e) ==
    IF Get(e, "totalHours").t = "number" /\ Get(e, "totalHours") # NaN
    THEN Get(e, "totalHours").n ELSE 0

RECURSIVE SumOver(_, _)
SumOver(st, I) ==
    IF I = {} THEN 0
    ELSE LET i == CHOOSE j \in I : TRUE
         IN CountedHours(Coll(st, "entries")[i]) + SumOver(st, I \ {i})

\* C18: sheetTotals(sheet) returns count = the number of entries whose sheetId
\* is sheet.id and sumHours = the sum of their totalHours rounded to two
\* decimals, a non-numeric total counted as 0; entries of other sheets and
\* orphaned entries do not contribute, and the store is left as it was.
C18_SheetTotals ==
    [][call'.fn = "sheetTotals" =>
        LET mine == Belonging(state, call'.sheet)
            sum == SumOver(state, mine)
            r == call'.result.sumHours.n
        IN /\ call'.result.count = Cardinality(mine)
           /\ r % 3 = 0
           /\ 2 * (r - sum) <= 3
           /\ 2 * (sum - r) < 3
           /\ state' = state
           /\ storage' = storage]_vars

\* a sheet with a numeric and a non-numeric total, beside an entry that is
\* not the sheet's
C18_Witness ==
    /\ call.fn = "sheetTotals"
    /\ call.sheet = Sheet("s1", "c1")
    /\ Len(Coll(state, "entries")) > call.result.count
    /\ call.result.count = 2
    /\ \E i \in DOMAIN Coll(state, "entries") :
          Coll(state, "entries")[i] = Obj([sheetId |-> Str("s1"), totalHours |-> Str("abc")])
    /\ call.result.sumHours = Num(6)

---------------------------------------------------------------------------
(* The pages: what render() draws for a route, and the closures of its     *)
(* handlers.                                                               *)

\* byId(arr, id)
byId(arr, id) ==
    LET hits == {i \in DOMAIN arr : Get(arr[i], "id") = id}
    IN IF hits = {} THEN Null
       ELSE arr[CHOOSE i \in hits : \A j \in hits : i <= j]

\* a.localeCompare(b) on the model's texts: -1, 0 or 1
localeCompare(a, b) ==
    IF StrLess(a, b) THEN 0 - 1 ELSE IF StrLess(b, a) THEN 1 ELSE 0

\* x || ""
OrEmpty(v) == IF Falsy(v) THEN Str("") ELSE v

\* compareEntriesByDateTime(a, b)
compareEntriesByDateTime(a, b) ==
    LET d == localeCompare(OrEmpty(Get(a, "workDate")), OrEmpty(Get(b, "workDate")))
        ti == localeCompare(OrEmpty(Get(a, "timeIn")), OrEmpty(Get(b, "timeIn")))
        to == localeCompare(OrEmpty(Get(a, "timeOut")), OrEmpty(Get(b, "timeOut")))
    IN IF d # 0 THEN d
       ELSE IF ti # 0 THEN ti
       ELSE IF to # 0 THEN to
       ELSE localeCompare(OrEmpty(Get(a, "createdAt")), OrEmpty(Get(b, "createdAt")))

\* x put into a sorted array after every element that is not greater
RECURSIVE InsertSorted(_, _)
InsertSorted(sorted, x) ==
    IF sorted = <<>> THEN <<x>>
    ELSE IF compareEntriesByDateTime(sorted[Len(sorted)], x) <= 0
    THEN Append(sorted, x)
    ELSE Append(InsertSorted(SubSeq(sorted, 1, Len(sorted) - 1), x), sorted[Len(sorted)])

\* arr.slice().sort(compareEntriesByDateTime): the sort is stable
RECURSIVE SortEntries(_)
SortEntries(arr) ==
    IF arr = <<>> THEN <<>>
    ELSE InsertSorted(SortEntries(SubSeq(arr, 1, Len(arr) - 1)), arr[Len(arr)])

\* n.toString() of a number of hours with at most two decimals
HoursToString(n) ==
    LET whole == n.n \div TicksPerHour
        hundredths == (n.n % TicksPerHour) \div 3
    IN IF hundredths = 0 THEN ToString(whole)
       ELSE IF hundredths % 10 = 0 THEN ToString(whole) \o "." \o ToString(hundredths \div 10)
       ELSE IF hundredths < 10 THEN ToString(whole) \o ".0" \o ToString(hundredths)
       ELSE ToString(whole) \o "." \o ToString(hundredths)

\* x ?? y
Coalesce(x, y) == IF Nullish(x) THEN y ELSE x

\* renderSheets() has drawn the list of sheets, the route of an empty hash
SheetsPage == [route |-> "#/sheets"]

\* renderClientEntries() has drawn the entries of a client
ClientPage == [route |-> "#/client"]

\* renderEntryFormNew() has found no client or no sheet
MissingPage == [route |-> "#/entry/new", form |-> FALSE]

\* renderEntryFormEdit() has found no entry
NotFoundPage == [route |-> "#/entry/edit", form |-> FALSE]

\* renderEntryForm({ mode, client, sheet, entry }) throws a TypeError where it
\* reads client.name or sheet.periodStart of a null
renderEntryFormThrows(client, sheet) == Nullish(client) \/ Nullish(sheet)

\* renderEntryForm({ mode, client, sheet, entry }): the form with the values
\* its inputs start with, and what the submit and delete handlers close over
renderEntryForm(route, client, sheet, entry) ==
    [route |-> route, form |-> TRUE, client |-> client, sheet |-> sheet, entry |-> entry,
     fields |-> [workDate |-> Coalesce(Get(entry, "workDate"), Get(sheet, "periodStart")),
                 timeIn |-> Coalesce(Get(entry, "timeIn"), Str("09:00")),
                 timeOut |-> Coalesce(Get(entry, "timeOut"), Str("17:00")),
                 breakHours |-> Str(HoursToString(Coalesce(Get(entry, "breakHours"), Num(0)))),
                 notes |-> Coalesce(Get(entry, "notes"), Str(""))]]

\* render() for a hash: the page drawn, or the page left standing when the
\* route's function throws
renderRoute(st, old, hash) ==
    IF hash.route = "#/settings" THEN SettingsPage
    ELSE IF hash.route = "#/sheets" THEN SheetsPage
    ELSE IF hash.route = "#/client" THEN ClientPage
    ELSE IF hash.route = "#/entry/new"
    THEN LET client == byId(Coll(st, "clients"), hash.clientId)
             sheet == byId(Coll(st, "sheets"), hash.sheetId)
         IN IF Falsy(client) \/ Falsy(sheet) THEN MissingPage
            ELSE renderEntryForm("#/entry/new", client, sheet, Null)
    ELSE LET entry == byId(Coll(st, "entries"), hash.id)
         IN IF Falsy(entry) THEN NotFoundPage
            ELSE LET client == byId(Coll(st, "clients"), Get(entry, "clientId"))
                     sheet == byId(Coll(st, "sheets"), Get(entry, "sheetId"))
                 IN IF renderEntryFormThrows(client, sheet) THEN old
                    ELSE renderEntryForm("#/entry/edit", client, sheet, entry)

\* a recalc that does not hold the total at 0
recalc_NoClamp(fields, sheet) ==
    LET hrs == hoursBetween(fields.timeIn, fields.timeOut)
        br == IF Falsy(fields.breakHours) THEN Num(0) ELSE Number(fields.breakHours)
    IN IF Nullish(hrs) \/ br = NaN THEN Null
       ELSE [total |-> round2(Num(hrs.n - br.n)),
             br |-> br,
             hrs |-> hrs,
             inPeriod |-> inRange(fields.workDate, Get(sheet, "periodStart"),
                                  Get(sheet, "periodEnd"))]

\* a recalc that takes a break that is not a number for 0
recalc_BreakNaNAsZero(fields, sheet) ==
    LET hrs == hoursBetween(fields.timeIn, fields.timeOut)
        br == NumberOrZero(fields.breakHours)
    IN IF Nullish(hrs) THEN Null
       ELSE [total |-> round2(Num(IF hrs.n - br.n > 0 THEN hrs.n - br.n ELSE 0)),
             br |-> br,
             hrs |-> hrs,
             inPeriod |-> inRange(fields.workDate, Get(sheet, "periodStart"),
                                  Get(sheet, "periodEnd"))]

\* recalc(): null, or { total, br, hrs, inPeriod }
recalc(fields, sheet) ==
    LET hrs == hoursBetween(fields.timeIn, fields.timeOut)
        br == IF Falsy(fields.breakHours) THEN Num(0) ELSE Number(fields.breakHours)
    IN IF Nullish(hrs) \/ br = NaN THEN Null
       ELSE [total |-> round2(Num(IF hrs.n - br.n > 0 THEN hrs.n - br.n ELSE 0)),
             br |-> br,
             hrs |-> hrs,
             inPeriod |-> inRange(fields.workDate, Get(sheet, "periodStart"),
                                  Get(sheet, "periodEnd"))]

\* the payload of the submit handler
entryPayload(p, calc, now) ==
    Obj([clientId |-> Get(p.client, "id"),
         sheetId |-> Get(p.sheet, "id"),
         workDate |-> p.fields.workDate,
         timeIn |-> p.fields.timeIn,
         timeOut |-> p.fields.timeOut,
         breakHours |-> round2(calc.br),
         totalHours |-> calc.total,
         notes |-> OrEmpty(p.fields.notes),
         updatedAt |-> now])

\* arr.findIndex(e => e.id === id), 0 when there is none
findIndex(arr, id) ==
    LET hits == {i \in DOMAIN arr : Get(arr[i], "id") = id}
    IN IF hits = {} THEN 0 ELSE CHOOSE i \in hits : \A j \in hits : i <= j

\* arr.filter(x => x[key] !== v)
Without(arr, key, v) == SelectSeq(arr, LAMBDA x : Get(x, key) # v)

---------------------------------------------------------------------------
(* The store and its pages: startup from what localStorage holds, the      *)
(* settings page's client and sheet handlers, and the entry form.          *)

Entry(id, clientId, sheetId, workDate, timeIn, timeOut, br, total) ==
    Obj([id |-> Str(id), createdAt |-> Str("2026-02-20T08:00:00.000Z"),
         clientId |-> Str(clientId), sheetId |-> Str(sheetId),
         workDate |-> Str(workDate), timeIn |-> Str(timeIn), timeOut |-> Str(timeOut),
         breakHours |-> Num(br), totalHours |-> Num(total), notes |-> Str(""),
         updatedAt |-> Str("2026-02-20T08:00:00.000Z")])

\* a store an earlier session has saved: two clients with a sheet and an entry each
EarlierStore ==
    Obj([clients |-> Arr(<<Client(Str("c1"), "Acme"), Client(Str("c2"), "Bolt")>>),
         sheets |-> Arr(<<Sheet("s1", "c1"), Sheet("s2", "c2")>>),
         entries |-> Arr(<<Entry("e1", "c1", "s1", "2026-02-20", "09:00", "17:30",
                                 TicksPerHour \div 2, 8 * TicksPerHour),
                           Entry("e2", "c2", "s2", "2026-02-24", "09:00", "17:30",
                                 0, 8 * TicksPerHour + TicksPerHour \div 2)>>),
         settings |-> Obj([sync |-> DEFAULT_SYNC])])

\* the same store as a version without settings has saved it
OlderStore ==
    Obj([k \in DOMAIN EarlierStore.o \ {"settings"} |-> EarlierStore.o[k]])

\* a store an earlier session has saved: two clients and one sheet with two
\* entries
EntryStore ==
    Obj([clients |-> Arr(<<Client(Str("c1"), "Acme"), Client(Str("c2"), "Bolt")>>),
         sheets |-> Arr(<<Sheet("s1", "c1")>>),
         entries |-> Arr(<<Entry("e1", "c1", "s1", "2026-02-20", "09:00", "17:30",
                                 TicksPerHour \div 2, 8 * TicksPerHour),
                           Entry("e2", "c1", "s1", "2026-02-24", "09:00", "17:30",
                                 0, 8 * TicksPerHour + TicksPerHour \div 2)>>),
         settings |-> Obj([sync |-> DEFAULT_SYNC])])

\* localStorage.getItem(STORAGE_KEY) at startup
Blobs == {Null, JSONstringify(EarlierStore), JSONstringify(OlderStore)}

EntryBlobs == {Null, JSONstringify(EntryStore)}

\* location.hash as a link, the address bar or navTo may set it
Hashes(st) ==
    LET ids(k) == {Get(Coll(st, k)[i], "id") : i \in DOMAIN Coll(st, k)}
    IN {[route |-> r] : r \in {"#/sheets", "#/client", "#/settings"}}
       \cup {[route |-> "#/entry/new", clientId |-> c, sheetId |-> s] :
                c \in ids("clients") \cup {Str("gone")}, s \in ids("sheets")}
       \cup {[route |-> "#/entry/edit", id |-> e] : e \in ids("entries") \cup {Str("gone")}}

\* the values of #sheetStart and #sheetEnd: a period in order, one with the
\* end before the start, one with the end left empty
Periods ==
    {[periodStart |-> Str("2026-02-16"), periodEnd |-> Str("2026-03-01")],
     [periodStart |-> Str("2026-03-01"), periodEnd |-> Str("2026-02-16")],
     [periodStart |-> Str("2026-02-16"), periodEnd |-> Str("")]}

\* what the inputs of the entry form may be set to: work date, time in, time
\* out, break, notes
FormInputs ==
    {[workDate |-> Str(f[1]), timeIn |-> Str(f[2]), timeOut |-> Str(f[3]),
      breakHours |-> Str(f[4]), notes |-> Str("")] :
        f \in {<<"2026-02-20", "09:00", "23:59", "">>,
               <<"2026-02-20", "09:00", "17:30", "9">>,
               <<"2026-02-20", "09:00", "17:30", "abc">>,
               <<"2026-03-05", "09:00", "17:30", "0.5">>}}

\* startup: state = loadState() and render() at an empty hash
Startup(blob) ==
    /\ state = loadState(blob, 0).state
    /\ storage = loadState(blob, 0).storage
    /\ uidCount = loadState(blob, 0).uids
    /\ pending = [k \in Kinds |-> 0]
    /\ outcome = ""
    /\ call = Idle
    /\ page = SheetsPage

InitSheets == \E blob \in Blobs : Startup(blob)

InitEntry == \E blob \in EntryBlobs : Startup(blob)

\* hashchange to one of the routes: render() draws the route of the new hash
Navigate(routes) ==
    \E hash \in {h \in Hashes(state) : h.route \in routes} :
        /\ page' = renderRoute(state, page, hash)
        /\ outcome' = ""
        /\ call' = Idle
        /\ UNCHANGED <<state, storage, pending, uidCount>>

\* addSheetBtn click with a client chosen; a period that fails either check
\* ends the handler at its alert
AddSheet ==
    \E i \in DOMAIN Coll(state, "clients"), period \in Periods :
        LET sheet == Obj([id |-> uid(uidCount + 1),
                          clientId |-> Get(Coll(state, "clients")[i], "id"),
                          personName |-> Str("Name Here"),
                          periodStart |-> period.periodStart,
                          periodEnd |-> period.periodEnd])
            st == Put(state, "sheets", Arr(Append(Coll(state, "sheets"), sheet)))
        IN /\ page = SettingsPage
           /\ uidCount < MaxUid
           /\ Len(Coll(state, "sheets")) < MaxSheets
           /\ ~Falsy(period.periodStart) /\ ~Falsy(period.periodEnd)
           /\ ~StrLess(period.periodEnd, period.periodStart)
           /\ state' = st
           /\ storage' = saveState(st)
           /\ uidCount' = uidCount + 1
           /\ outcome' = ""
           /\ UNCHANGED <<pending, call, page>>

\* what the two confirm() dialogs of a sheet's Delete button were answered
DeleteAnswers ==
    {"Delete sheet AND its entries: OK", "Delete sheet ONLY: OK", "Delete sheet ONLY: Cancel"}

\* a sheet delete that drops the entries under either answer
deleteSheet_AlwaysCascade(st, sheetId, answer) ==
    IF answer = "Delete sheet ONLY: Cancel" THEN [state |-> st, saved |-> FALSE]
    ELSE [state |-> Put(Put(st, "sheets", Arr(Without(Coll(st, "sheets"), "id", sheetId))),
                        "entries",
                        Arr(SortEntries(Without(Coll(st, "entries"), "sheetId", sheetId)))),
          saved |-> TRUE]

\* the click handler of a [data-del-sheet] button whose sheet is in the store
deleteSheet(st, sheetId, answer) ==
    IF answer = "Delete sheet ONLY: Cancel" THEN [state |-> st, saved |-> FALSE]
    ELSE IF answer = "Delete sheet ONLY: OK"
    THEN [state |-> Put(st, "sheets", Arr(Without(Coll(st, "sheets"), "id", sheetId))),
          saved |-> TRUE]
    ELSE [state |-> Put(Put(st, "sheets", Arr(Without(Coll(st, "sheets"), "id", sheetId))),
                        "entries",
                        Arr(SortEntries(Without(Coll(st, "entries"), "sheetId", sheetId)))),
          saved |-> TRUE]

\* a sheet's Delete button is clicked and the dialogs are answered
DeleteSheet ==
    \E i \in DOMAIN Coll(state, "sheets"), answer \in DeleteAnswers :
        LET sheetId == Get(Coll(state, "sheets")[i], "id")
            d == deleteSheet(state, sheetId, answer)
        IN /\ page = SettingsPage
           /\ ~Falsy(byId(Coll(state, "sheets"), sheetId))
           /\ state' = d.state
           /\ storage' = IF d.saved THEN saveState(d.state) ELSE storage
           /\ outcome' = answer
           /\ UNCHANGED <<pending, uidCount, call, page>>

\* an edit that writes the payload over the first entry of the array
submitEdit_FirstEntry(st, p, payload) ==
    Put(st, "entries", Arr([Coll(st, "entries") EXCEPT ![1] = Spread(@, payload)]))

\* the edit branch of the submit handler
submitEdit(st, p, payload) ==
    LET idx == findIndex(Coll(st, "entries"), Get(p.entry, "id"))
    IN IF idx >= 1
       THEN Put(st, "entries", Arr([Coll(st, "entries") EXCEPT ![idx] = Spread(@, payload)]))
       ELSE st

\* the new branch of the submit handler
submitNew(st, p, payload, id, now) ==
    Put(st, "entries",
        Arr(Append(Coll(st, "entries"), Spread(Obj([id |-> id, createdAt |-> now]), payload))))

\* entryForm submit, with the fields as the input events have left them
SubmitEntry ==
    /\ page.route \in {"#/entry/new", "#/entry/edit"}
    /\ page.form
    /\ \E now \in Times, fields \in FormInputs :
        LET p == [page EXCEPT !.fields = fields]
            calc == recalc(fields, page.sheet)
            payload == entryPayload(p, calc, now)
            isNew == page.route = "#/entry/new"
            st == IF isNew THEN submitNew(state, p, payload, uid(uidCount + 1), now)
                  ELSE submitEdit(state, p, payload)
        IN /\ call' = [fn |-> "submit", fields |-> fields]
           /\ IF calc = Null
              THEN /\ outcome' = "Please fix the time fields."
                   /\ UNCHANGED <<state, storage, uidCount, page>>
              ELSE IF ~calc.inPeriod
              THEN /\ outcome' = "Date must be within the period."
                   /\ UNCHANGED <<state, storage, uidCount, page>>
              ELSE /\ isNew => (uidCount < MaxEntryUid /\ Len(Coll(state, "entries")) < MaxEntries)
                   /\ state' = st
                   /\ storage' = saveState(st)
                   /\ uidCount' = IF isNew THEN uidCount + 1 ELSE uidCount
                   /\ outcome' = ""
                   /\ page' = ClientPage
           /\ UNCHANGED pending

\* the assignment of the deleteBtn handler
deleteEntry(st, p) ==
    Put(st, "entries", Arr(SortEntries(Without(Coll(st, "entries"), "id", Get(p.entry, "id")))))

\* deleteBtn click, confirm() answered with ok
DeleteEntry ==
    /\ page.route = "#/entry/edit"
    /\ page.form
    /\ state' = deleteEntry(state, page)
    /\ storage' = saveState(deleteEntry(state, page))
    /\ outcome' = ""
    /\ call' = [fn |-> "delete"]
    /\ page' = ClientPage
    /\ UNCHANGED <<pending, uidCount>>

\* the settings page: clients and sheets
NextSheets ==
    \/ Navigate({"#/sheets", "#/settings"})
    \/ AddClient
    \/ AddSheet
    \/ DeleteSheet
    \/ Reset

SpecSheets == InitSheets /\ [][NextSheets]_vars

\* the entry form
NextEntry ==
    \/ Navigate({"#/client", "#/entry/new", "#/entry/edit"})
    \/ SubmitEntry
    \/ DeleteEntry

SpecEntry == InitEntry /\ [][NextEntry]_vars

---------------------------------------------------------------------------
(* Properties of the sheet Delete button (checked under SpecSheets). *)

\* s without its i-th element
RemoveAt(s, i) == SubSeq(s, 1, i - 1) \o SubSeq(s, i + 1, Len(s))

\* the positions of the entries of st whose sheetId is not id
EntriesOffSheet(st, id) ==
    {j \in DOMAIN Coll(st, "entries") : Get(Coll(st, "entries")[j], "sheetId") # id}

\* C11: deleting sheet S with the cascade answer removes S and the entries
\* whose sheetId is S.id and nothing else; with the sheet-only answer it removes
\* S alone and every entry stays as it was; clients, the other sheets and the
\* entries of other sheets are unchanged either way; declining both dialogs
\* changes nothing.
C11_SheetDelete ==
    [][outcome' \in DeleteAnswers =>
        \E i \in DOMAIN Coll(state, "sheets") :
            LET S == Coll(state, "sheets")[i]
                kept == EntriesOffSheet(state, Get(S, "id"))
            IN /\ Get(state', "clients") = Get(state, "clients")
               /\ Get(state', "settings") = Get(state, "settings")
               /\ DOMAIN state'.o = DOMAIN state.o
               /\ IF outcome' = "Delete sheet ONLY: Cancel"
                  THEN state' = state /\ storage' = storage
                  ELSE /\ Coll(state', "sheets") = RemoveAt(Coll(state, "sheets"), i)
                       /\ IF outcome' = "Delete sheet ONLY: OK"
                          THEN Get(state', "entries") = Get(state, "entries")
                          ELSE /\ Len(Coll(state', "entries")) = Cardinality(kept)
                               /\ {Coll(state', "entries")[j] : j \in DOMAIN Coll(state', "entries")}
                                    = {Coll(state, "entries")[j] : j \in kept}]_vars

\* sheet s1 of the earlier store has been deleted with its entry e1: sheet s2
\* and its entry e2 are what is left
C11_Witness ==
    /\ outcome = "Delete sheet AND its entries: OK"
    /\ Coll(state, "sheets") = <<Sheet("s2", "c2")>>
    /\ Len(Coll(state, "entries")) = 1
    /\ Get(Coll(state, "entries")[1], "id") = Str("e2")
    /\ Len(Coll(state, "clients")) = 2

---------------------------------------------------------------------------
(* Properties of the store as a whole. *)

\* C12 (checked under SpecSheets): whenever no handler is running, the text
\* under the storage key is the serialization of the store in memory.
C12_WriteThrough == storage = saveState(state)

\* C14 (checked under Spec): in every reachable store no two records of one
\* collection share an id.
C14_UniqueIds ==
    \A k \in Collections :
        \A i, j \in DOMAIN Coll(state, k) :
            i # j => Get(Coll(state, k)[i], "id") # Get(Coll(state, k)[j], "id")

---------------------------------------------------------------------------
(* Properties of the entry form (checked under SpecEntry). *)

\* elapsed ticks from timeIn to timeOut, a day added when timeOut is earlier
ElapsedTicks(e) ==
    (((MinutesOf(Get(e, "timeOut")) - MinutesOf(Get(e, "timeIn"))) % 1440) * TicksPerHour) \div 60

\* r is x rounded to a hundredth of an hour (3 ticks)
RoundedTo(r, x) == r % 3 = 0 /\ 2 * (r - x) <= 3 /\ 2 * (x - r) < 3

\* the entry a submit step has written: the last one when the form was a new
\* entry's, the one with the edited entry's id otherwise
SavedEntry ==
    IF page.route = "#/entry/new"
    THEN Coll(state', "entries")[Len(Coll(state', "entries"))]
    ELSE byId(Coll(state', "entries"), Get(page.entry, "id"))

\* a submit step whose times are strict HH:MM and whose date is in the period
SubmitWithGoodTimes ==
    /\ call'.fn = "submit"
    /\ StrictHHMM(call'.fields.timeIn)
    /\ StrictHHMM(call'.fields.timeOut)
    /\ call'.fields.workDate = Str("2026-02-20")

\* C15: every entry of the store has totalHours = max(0, round2(elapsed hours
\* from timeIn to timeOut minus breakHours)): never negative, and the
\* two-decimal rounding of the difference when that is not negative.
C15_TotalHours ==
    \A i \in DOMAIN Coll(state, "entries") :
        LET e == Coll(state, "entries")[i]
            x == ElapsedTicks(e) - Get(e, "breakHours").n
            total == Get(e, "totalHours").n
        IN /\ total >= 0
           /\ IF x >= 0 THEN RoundedTo(total, x) ELSE total = 0

\* an entry saved with a break of 9 hours on 8.5 elapsed, clamped to 0, and one
\* saved from 09:00 to 23:59, rounded to 14.98
C15_Witness ==
    /\ call.fn = "submit"
    /\ \E i \in DOMAIN Coll(state, "entries") :
          /\ Get(Coll(state, "entries")[i], "breakHours") = Num(9 * TicksPerHour)
          /\ Get(Coll(state, "entries")[i], "totalHours") = Num(0)
    /\ \E i \in DOMAIN Coll(state, "entries") :
          /\ Get(Coll(state, "entries")[i], "timeOut") = Str("23:59")
          /\ Get(Coll(state, "entries")[i], "totalHours") = Num(14 * TicksPerHour + 98 * 3)

C19_NewEntryClientOfSheet ==
    [][(call'.fn = "submit" /\ page.route = "#/entry/new" /\ state' # state) =>
        Get(SavedEntry, "clientId")
            = Get(byId(Coll(state', "sheets"), Get(SavedEntry, "sheetId")), "clientId")]_vars

\* the entries of st whose id is not id, as records
OtherEntries(st, id) ==
    {Coll(st, "entries")[j] : j \in {k \in DOMAIN Coll(st, "entries") :
                                        Get(Coll(st, "entries")[k], "id") # id}}

\* C20: saving an edit of entry E replaces only the record whose id is E.id,
\* keeping its id and createdAt, and deleting E removes only the record whose
\* id is E.id; every other entry, every sheet, every client and the settings
\* keep their field values.
C20_EditAndDeleteById ==
    [][((call'.fn = "submit" /\ outcome' = "" /\ page.route = "#/entry/edit")
            \/ call'.fn = "delete") =>
        LET id == Get(page.entry, "id")
            old == Coll(state, "entries")
            new == Coll(state', "entries")
        IN /\ Get(state', "clients") = Get(state, "clients")
           /\ Get(state', "sheets") = Get(state, "sheets")
           /\ Get(state', "settings") = Get(state, "settings")
           /\ OtherEntries(state', id) = OtherEntries(state, id)
           /\ IF call'.fn = "delete"
              THEN /\ Len(new) = Len(old) - 1
                   /\ \A j \in DOMAIN new : Get(new[j], "id") # id
              ELSE /\ Len(new) = Len(old)
                   /\ \A j \in DOMAIN old :
                         IF Get(old[j], "id") = id
                         THEN /\ Get(new[j], "id") = id
                              /\ Get(new[j], "createdAt") = Get(old[j], "createdAt")
                              /\ Get(new[j], "updatedAt") \in Times
                         ELSE new[j] = old[j]]_vars

\* entry e2 has been edited: it keeps its id and createdAt, and e1 is as it was
C20_Witness ==
    /\ call.fn = "submit"
    /\ outcome = ""
    /\ Len(Coll(state, "entries")) = 2
    /\ Coll(state, "entries")[1] = Coll(EntryStore, "entries")[1]
    /\ Get(Coll(state, "entries")[2], "id") = Str("e2")
    /\ Get(Coll(state, "entries")[2], "createdAt") = Str("2026-02-20T08:00:00.000Z")
    /\ Get(Coll(state, "entries")[2], "updatedAt") \in Times

---------------------------------------------------------------------------
(* Loads from the URL that overlap: a second click of loadFromUrlBtn while *)
(* the first handler is still suspended at its fetch.  `call` keeps the    *)
(* history of the completions since the last click: the store the first   *)
(* of them found, and the snapshots merged since, in order of completion. *)

\* the history after a load has completed with `resp` on the store `st`: a
\* load that failed has merged nothing
Completed(log, st, resp, now) ==
    IF ~loadEffect(st, resp, now).saved THEN log
    ELSE LET incoming == sanitizeImported(JSONparse(resp.body))
         IN IF log = Idle
            THEN [fn |-> "load", base |-> st, merged |-> <<incoming>>]
            ELSE [log EXCEPT !.merged = Append(@, incoming)]

\* a click starts the history afresh: saveSync has changed the store
OverlappingLoadClick ==
    \E inp \in SyncInputs :
        /\ LoadClickStep(inp, MaxLoads)
        /\ call' = Idle

OverlappingLoadDone ==
    \E resp \in Responses, now \in Times :
        /\ LoadDoneStep(resp, now)
        /\ call' = Completed(call, state, resp, now)
        /\ UNCHANGED page

NextLoads == OverlappingLoadClick \/ OverlappingLoadDone

SpecLoads == Init /\ [][NextLoads]_vars

\* the snapshots merged into st one after the other
RECURSIVE MergeAll(_, _)
MergeAll(st, incomings) ==
    IF incomings = <<>> THEN st
    ELSE MergeAll(mergeImported(st, Head(incomings)), Tail(incomings))

\* C13 (checked under SpecLoads): loads from the URL that overlap each merge
\* their snapshot into the store as it is when they complete: after the
\* completions the store is the store the first completion found with the
\* snapshots merged into it in order of completion (lastSyncAt being the
\* time of the last one), and under an id that the last snapshot shares
\* with an earlier one the store holds the last snapshot's record.
C13_OverlappingLoads ==
    call.fn = "load" =>
        LET last == call.merged[Len(call.merged)]
        IN /\ \E now \in Times :
                 state = stampSync(MergeAll(call.base, call.merged), now)
           /\ \A c \in Collections, n \in 1..(Len(call.merged) - 1) :
                 \A id \in Ids(Coll(last, c)) \cap Ids(Coll(call.merged[n], c)) :
                     /\ id \in Ids(Coll(state, c))
                     /\ RecordOf(Coll(state, c), id) = LastWith(Coll(last, c), id)

\* two loads were in flight together, both have completed, their snapshots
\* hold different records under one entry id, and the store holds the record
\* of the one that completed second
C13_Witness ==
    /\ call.fn = "load"
    /\ Len(call.merged) = 2
    /\ pending["load"] = 0
    /\ \E id \in Ids(Coll(call.merged[1], "entries")) \cap Ids(Coll(call.merged[2], "entries")) :
          /\ LastWith(Coll(call.merged[1], "entries"), id)
                # LastWith(Coll(call.merged[2], "entries"), id)
          /\ RecordOf(Coll(state, "entries"), id)
                = LastWith(Coll(call.merged[2], "entries"), id)

---------------------------------------------------------------------------
(* The sync configuration across a merge (checked under Spec). *)

\* a document that carries no settings, or settings without sync
LacksSync(root) == Nullish(Get(Get(root, "settings"), "sync"))

\* this step is a merge-mode import, or a load from the Read URL, that has
\* merged a document without settings.sync into the store
MergedWithoutSync ==
    \E text \in Texts :
        /\ ~JSONparseThrows(text)
        /\ ~sanitizeThrows(JSONparse(text))
        /\ LacksSync(JSONparse(text))
        /\ LET incoming == sanitizeImported(JSONparse(text))
           IN /\ ~mergeThrows(state, incoming)
              /\ \/ /\ pending["merge"] > 0
                    /\ pending' = Resume("merge")
                    /\ state' = mergeImported(state, incoming)
                 \/ /\ pending["load"] > 0
                    /\ pending' = Resume("load")
                    /\ \E now \in Times :
                          state' = stampSync(mergeImported(state, incoming), now)

\* C23: a merge-mode import or a successful load from the Read URL of a
\* document without settings, or without settings.sync, leaves readUrl,
\* writeUrl, method and bearerToken of the store as they were.
C23_SyncConfigKept ==
    [][MergedWithoutSync =>
          \A f \in FormFields : Get(SyncOf(state'), f) = Get(SyncOf(state), f)]_vars

---------------------------------------------------------------------------
(* Sheets and their periods: sheets made by the form, and sheets that come *)
(* in with a file or a server response.                                    *)

PeriodSheet(id, start, end) ==
    Obj([id |-> Str(id), clientId |-> uid(1), personName |-> Str("Name Here"),
         periodStart |-> Str(start), periodEnd |-> Str(end)])

\* JSON documents with a sheet: one whose period is in order, one whose
\* period ends before it starts
SheetRoots ==
    {Obj([sheets |-> Arr(<<PeriodSheet("s8", "2026-02-16", "2026-03-01")>>)]),
     Obj([sheets |-> Arr(<<PeriodSheet("s9", "2026-03-01", "2026-02-16")>>)])}

\* what fetch() may come to: a rejection, or one of the documents as the body
SheetResponses ==
    {[kind |-> "rejected"]} \cup {[kind |-> "ok", body |-> JSONstringify(r)] : r \in SheetRoots}

SheetImportDone ==
    \E mode \in {"merge", "replace"}, text \in {JSONstringify(r) : r \in SheetRoots} :
        /\ ImportDoneStep(mode, text)
        /\ UNCHANGED call

SheetLoadDone ==
    \E resp \in SheetResponses, now \in Times :
        /\ LoadDoneStep(resp, now)
        /\ UNCHANGED <<call, page>>

NextPeriods ==
    \/ AddSheet
    \/ Reset
    \/ ImportClick
    \/ SheetImportDone
    \/ LoadClick
    \/ SheetLoadDone

SpecPeriods == Init /\ [][NextPeriods]_vars

\* the period of the sheet is two date strings, the start not after the end
PeriodInOrder(sheet) ==
    /\ Get(sheet, "periodStart").t = "string"
    /\ Get(sheet, "periodEnd").t = "string"
    /\ ~StrLess(Get(sheet, "periodEnd"), Get(sheet, "periodStart"))

\* C21 (checked under SpecPeriods): every sheet of every reachable store has
\* periodStart <= periodEnd in the order of ISO date strings, whatever sheet
\* creations, imports, loads and resets have happened.
C21_PeriodsInOrder ==
    \A i \in DOMAIN Coll(state, "sheets") : PeriodInOrder(Coll(state, "sheets")[i])

---------------------------------------------------------------------------
(* Work done on the store while a load from the Read URL is outstanding:   *)
(* the click on the settings page with a Read URL typed in, then clients   *)
(* added and entries edited and deleted while fetch() is pending, then the *)
(* completion, which draws the page of the current hash again.  `call`     *)
(* keeps what the completion found: the handler that ran last during the   *)
(* wait and the snapshot merged.                                           *)

\* a store an earlier session has saved: a client, a sheet and an entry
WaitStore ==
    Obj([clients |-> Arr(<<Client(Str("c1"), "Acme")>>),
         sheets |-> Arr(<<Sheet("s1", "c1")>>),
         entries |-> Arr(<<Entry("e1", "c1", "s1", "2026-02-20", "09:00", "17:30",
                                 TicksPerHour \div 2, 8 * TicksPerHour)>>),
         settings |-> Obj([sync |-> DEFAULT_SYNC])])

InitWait == Startup(JSONstringify(WaitStore))

\* server documents: one that carries the entry e1 with other hours, one
\* that carries another entry
WaitRoots ==
    {Obj([entries |-> Arr(<<Entry("e1", "c1", "s1", "2026-02-20", "09:00", "17:00",
                                  0, 8 * TicksPerHour)>>)]),
     Obj([entries |-> Arr(<<Entry("e5", "c1", "s1", "2026-02-24", "09:00", "17:00",
                                  0, 8 * TicksPerHour)>>)])}

\* location.hash of a drawn entry form
HashOf(p) ==
    IF p.route = "#/entry/new"
    THEN [route |-> p.route, clientId |-> Get(p.client, "id"), sheetId |-> Get(p.sheet, "id")]
    ELSE [route |-> p.route, id |-> Get(p.entry, "id")]

\* render() at the hash that drew p: a form is drawn from the store again;
\* the other pages hold nothing of the store
Rerender(st, p) ==
    IF p.route \in {"#/entry/new", "#/entry/edit"} /\ p.form
    THEN renderRoute(st, p, HashOf(p))
    ELSE p

WaitLoadClick ==
    \E inp \in {i \in SyncInputs : i.readUrl # ""} :
        /\ page = SettingsPage
        /\ LoadClickStep(inp, MaxInflight)
        /\ call' = Idle

\* the completion: on success setMsg() writes to the message element of the
\* settings page as it was drawn at the click, and render() draws the
\* current page
WaitLoadDone ==
    \E resp \in {[kind |-> "status"]}
                  \cup {[kind |-> "ok", body |-> JSONstringify(r)] : r \in WaitRoots},
       now \in Times :
        LET e == loadEffect(state, resp, now)
        IN /\ LoadDoneStep(resp, now)
           /\ page' = IF e.saved /\ ~renderThrows(e.state) THEN Rerender(e.state, page)
                      ELSE page
           /\ call' = [fn |-> "loaded",
                       during |-> IF outcome = "" THEN call.fn ELSE "none",
                       ok |-> e.saved,
                       incoming |-> IF e.saved THEN sanitizeImported(JSONparse(resp.body))
                                    ELSE Null]

NextWait ==
    \/ Navigate({"#/settings", "#/entry/edit"})
    \/ AddClient
    \/ SubmitEntry
    \/ DeleteEntry
    \/ WaitLoadClick
    \/ WaitLoadDone

SpecWait == InitWait /\ [][NextWait]_vars

\* C22 (checked under SpecWait): what was done to the store while a load was
\* outstanding is there when the load has completed: every record the store
\* held at completion is still in it, as it was unless the snapshot carries
\* its id, and no record is in it that neither the store nor the snapshot
\* held; a load that fails leaves the store as it found it.
C22_LocalWorkKept ==
    [][(call'.fn = "loaded" /\ pending' # pending) =>
          IF call'.ok
          THEN \A c \in Collections :
                  /\ Ids(Coll(state', c)) = Ids(Coll(state, c)) \cup Ids(Coll(call'.incoming, c))
                  /\ \A i \in DOMAIN Coll(state, c) :
                        IdOf(Coll(state, c)[i]) \notin Ids(Coll(call'.incoming, c)) =>
                            RecordOf(Coll(state', c), IdOf(Coll(state, c)[i])) = Coll(state, c)[i]
          ELSE state' = state]_vars

\* an entry was saved by the form while the load was outstanding, the load
\* has merged a snapshot that carries another entry, and the saved entry is in
\* the store with the form's time stamp
C22_Witness ==
    /\ call.fn = "loaded"
    /\ call.ok
    /\ call.during = "submit"
    /\ Coll(call.incoming, "entries") # <<>>
    /\ \E i \in DOMAIN Coll(state, "entries") :
          /\ Get(Coll(state, "entries")[i], "updatedAt") \in Times
          /\ IdOf(Coll(state, "entries")[i]) \notin Ids(Coll(call.incoming, "entries"))

====
